---- MODULE Spec2Model ----
(***************************************************************************)
(* Model of the command dispatcher of package cli (src/cli/cli.go).        *)
(*                                                                         *)
(* A Cli holds an ordered list of handlers whose first element is the Cli  *)
(* itself.  Run resolves the first two tokens (then the first token) of    *)
(* the argument vector to a method named "Cmd" + capitalised tokens, runs  *)
(* the handler's Initialize hook when it has one, and invokes the method.  *)
(*                                                                         *)
(* Strings are sequences of one-character strings so that the             *)
(* capitalisation of cli.go:68 is computed and not assumed.  Everything a  *)
(* call does that is visible outside it (reflective method lookups, hook   *)
(* calls, action invocations, writes to the error stream, usage printing,  *)
(* process exit) is appended, in program order, to the variable log.       *)
(***************************************************************************)
EXTENDS Integers, Sequences, FiniteSets, TLC

\* Largest number of handlers passed to New (the Cli itself comes on top).
MaxHandlers == 2
\* Longest argument vector passed to Run.
MaxArgs == 3

VARIABLES
    handlers,   \* cli.handlers, cli.go:18
    Stderr,     \* cli.Stderr, cli.go:17: "nil" or the name of a writer
    Usage,      \* cli.Usage, cli.go:19: "nil" or "custom"
    call,       \* the method called, its arguments and cli.Stderr at the call
    log,        \* the observable events of the call, in program order
    method,     \* the method value command returned, NoMethod if none
    result,     \* the error value the call returned, NoReturn if it did not
    exited      \* TRUE once os.Exit has been called

vars == <<handlers, Stderr, Usage, call, log, method, result, exited>>

----------------------------------------------------------------------------
\* Strings

Lower == <<"a","b","c","d","e","f","g","h","i","j","k","l","m",
           "n","o","p","q","r","s","t","u","v","w","x","y","z">>
Upper == <<"A","B","C","D","E","F","G","H","I","J","K","L","M",
           "N","O","P","Q","R","S","T","U","V","W","X","Y","Z">>

\* unicode.ToUpper / unicode.ToLower on the characters of the model
UpperMap == [c \in {Lower[i] : i \in 1..Len(Lower)} |->
               Upper[CHOOSE i \in 1..Len(Lower) : Lower[i] = c]]
LowerMap == [c \in {Upper[i] : i \in 1..Len(Upper)} |->
               Lower[CHOOSE i \in 1..Len(Upper) : Upper[i] = c]]
ToUpperCh(c) == IF c \in DOMAIN UpperMap THEN UpperMap[c] ELSE c
ToLowerCh(c) == IF c \in DOMAIN LowerMap THEN LowerMap[c] ELSE c
ToUpper(s) == [i \in 1..Len(s) |-> ToUpperCh(s[i])]
ToLower(s) == [i \in 1..Len(s) |-> ToLowerCh(s[i])]

\* strings.ToUpper(s[:1]) + strings.ToLower(s[1:]), for a non-empty s
Capitalize(s) == ToUpper(SubSeq(s, 1, 1)) \o ToLower(SubSeq(s, 2, Len(s)))

\* strings.Join(elems, "")
RECURSIVE Join(_)
Join(elems) == IF elems = <<>> THEN <<>> ELSE Head(elems) \o Join(Tail(elems))

\* "Cmd" + strings.Join(camelArgs, "")
methodName(args) ==
    <<"C","m","d">> \o Join([i \in 1..Len(args) |-> Capitalize(args[i])])

\* The tokens a caller passes.
help     == <<"h","e","l","p">>
fOo      == <<"f","O","o">>
empty    == <<>>
dashHelp == <<"-","-","h","e","l","p">>     \* the literal "--help"
Tokens   == {help, fOo, empty}

\* Method names.
CmdHelpName   == <<"C","m","d","H","e","l","p">>
CmdFooName    == <<"C","m","d","F","o","o">>
CmdFooFooName == <<"C","m","d","F","o","o","F","o","o">>
RunName       == <<"R","u","n">>

RECURSIVE SeqsUpTo(_, _)
SeqsUpTo(S, n) ==
    IF n = 0 THEN {<<>>}
    ELSE LET shorter == SeqsUpTo(S, n - 1)
         IN shorter \cup {Append(s, x) : s \in {t \in shorter : Len(t) = n - 1}, x \in S}

----------------------------------------------------------------------------
\* Handlers

\* The *Cli that New puts first, a nil interface value, and the handlers a
\* caller registers: a set of exported methods of type func(...string) error
\* and, when the handler implements Initializer, what Initialize returns.
\* One kind of handler has the one-word command "foo" and a CmdHelp of its
\* own, the other the two-word command "foo foo".
Self       == [kind |-> "cli"]
NilHandler == [kind |-> "nil"]
MethodSets == {{CmdFooName, CmdHelpName}, {CmdFooFooName}}
UserHandlers ==
    [kind : {"user"}, methods : MethodSets, init : {"none", "ok", "fail"}]
Handler == UserHandlers \cup {NilHandler}

\* Error values.
NilErr      == [type |-> "nil"]
NoReturn    == [type |-> "noreturn"]
\* A slip: the error for an empty token is returned as an initErr.
ErrEmptyAsInit ==
    [type |-> "initErr", error |-> [type |-> "errorString", msg |-> "empty command"]]
\* errors.New("empty command")
ErrEmpty    == [type |-> "errorString", msg |-> "empty command"]
ErrNotFound == [type |-> "errorString", msg |-> "command not found"]
HookErr(i)  == [type |-> "hookError", h |-> i]
StatusError == [type |-> "StatusError", StatusCode |-> 1]
ActionResults == {NilErr, StatusError}

\* type initErr struct{ error }
initErr(err) == [type |-> "initErr", error |-> err]

NoMethod == [h |-> 0, name |-> <<>>]
NoCall   == [op |-> "none", args |-> <<>>, stderr |-> "nil"]

\* The exported methods reflect sees on a handler.
Methods(c) ==
    CASE c.kind = "cli"  -> {RunName, CmdHelpName}
      [] c.kind = "user" -> c.methods
      [] OTHER           -> {}

\* reflect.ValueOf(c).MethodByName(methodName).IsValid()
MethodByName(c, name) == name \in Methods(c)

\* A slip: the capability query is answered "no" for every handler.
NeverInitializer(c) == FALSE
\* c, ok := c.(Initializer): *Cli has no Initialize method.
IsInitializer(c) == c.kind = "user" /\ c.init # "none"

\* c.Initialize()
Initialize(c, i) == IF c.init = "fail" THEN HookErr(i) ELSE NilErr

----------------------------------------------------------------------------
\* Outcomes: what a call logged, the error it returned, whether it exited.

Outcome(l, r, x) == [log |-> l, ret |-> r, exited |-> x]
Returned(l, r)   == Outcome(l, r, FALSE)

\* o, and then what the code after it does, unless o ended the process.
Then(o, after) ==
    IF o.exited THEN o
    ELSE Outcome(o.log \o after.log, after.ret, after.exited)

\* len(s) == 0 for some token of args
HasEmpty(args) == \E k \in 1..Len(args) : Len(args[k]) = 0

\* The body of the loop of command for handlers[i], then the later ones.
RECURSIVE commandFrom(_, _)
commandFrom(i, args) ==
    IF i > Len(handlers)
    THEN [method |-> NoMethod, err |-> ErrNotFound, log |-> <<>>]
    ELSE
      LET c == handlers[i] IN
      IF c = NilHandler THEN commandFrom(i + 1, args)
      ELSE IF HasEmpty(args)
      THEN [method |-> NoMethod, err |-> ErrEmpty, log |-> <<>>]
      ELSE
        LET name  == methodName(args)
            probe == [ev |-> "probe", depth |-> 0, h |-> i, name |-> name]
        IN
        IF MethodByName(c, name)
        THEN
          IF IsInitializer(c)
          THEN
            LET err  == Initialize(c, i)
                hook == [ev |-> "init", depth |-> 0, h |-> i, err |-> err]
            IN IF err # NilErr
               THEN [method |-> NoMethod, err |-> initErr(err),
                     log |-> <<probe, hook>>]
               ELSE [method |-> [h |-> i, name |-> name], err |-> NilErr,
                     log |-> <<probe, hook>>]
          ELSE [method |-> [h |-> i, name |-> name], err |-> NilErr,
                log |-> <<probe>>]
        ELSE
          LET later == commandFrom(i + 1, args)
          IN [later EXCEPT !.log = <<probe>> \o @]

\* func (cli *Cli) command(args ...string) (func(...string) error, error)
command(args) ==
    LET r == commandFrom(1, args)
    IN [r EXCEPT !.log = <<[ev |-> "command", depth |-> 0, args |-> args]>> \o @]

\* A slip: an initErr is not told apart from the other errors.
errTypeNoInitErr(err) == IF err = NilErr THEN "nil" ELSE "other"
\* switch err := err.(type) { case nil: ... case initErr: ... }
errType(err) ==
    IF err = NilErr THEN "nil"
    ELSE IF err.type = "initErr" THEN "initErr"
    ELSE "other"

\* A slip: the diagnostic is written but the process is left running.
noSuchCommandNoExit(token) ==
    Returned(<<[ev |-> "diag", depth |-> 0,
                stream |-> IF Stderr = "nil" THEN "os.Stderr" ELSE Stderr,
                token |-> token]>>, NilErr)
\* A slip: the diagnostic goes to os.Stderr whatever stream is configured.
noSuchCommandToOsStderr(token) ==
    Outcome(<<[ev |-> "diag", depth |-> 0, stream |-> "os.Stderr",
               token |-> token],
              [ev |-> "exit", depth |-> 0, code |-> 1]>>, NoReturn, TRUE)
\* func (cli *Cli) noSuchCommand(command string)
noSuchCommand(token) ==
    Outcome(<<[ev |-> "diag", depth |-> 0,
               stream |-> IF Stderr = "nil" THEN "os.Stderr" ELSE Stderr,
               token |-> token],
              [ev |-> "exit", depth |-> 0, code |-> 1]>>, NoReturn, TRUE)

\* A slip: the default renderer runs whether or not a hook is configured.
printUsageBoth(u) ==
    IF u = "nil" THEN <<[ev |-> "usage", depth |-> 0, by |-> "default"]>>
    ELSE <<[ev |-> "usage", depth |-> 0, by |-> "default"], [ev |-> "usage", depth |-> 0, by |-> "custom"]>>
\* if cli.Usage == nil { flag.Usage() } else { cli.Usage() }
printUsage(u) ==
    IF u = "nil" THEN <<[ev |-> "usage", depth |-> 0, by |-> "default"]>>
    ELSE <<[ev |-> "usage", depth |-> 0, by |-> "custom"]>>

\* A slip: one token is dropped however many were consumed.
restDropOne(args, n) == SubSeq(args, 2, Len(args))
\* args[n:]
rest(args, n) == SubSeq(args, n + 1, Len(args))

\* The events of a callee, seen from its caller: one call deeper.
deeper(l) == [k \in 1..Len(l) |-> [l[k] EXCEPT !.depth = @ + 1]]

\* The call m(args...) of a method value returned by command.  The actions of
\* registered handlers are opaque: they return ret.  The action CmdHelp of
\* the Cli itself is the code below.
RECURSIVE CmdHelp(_, _)
invoke(m, args, ret) ==
    LET entry == [ev |-> "invoke", depth |-> 0, h |-> m.h, name |-> m.name,
                  args |-> args]
        body  == IF handlers[m.h] = Self /\ m.name = CmdHelpName
                 THEN CmdHelp(args, ret)
                 ELSE Returned(<<>>, ret)
    IN IF body.exited
       THEN Outcome(<<entry>> \o deeper(body.log), NoReturn, TRUE)
       ELSE Returned(<<entry>> \o deeper(body.log)
                       \o <<[ev |-> "return", depth |-> 0, h |-> m.h,
                             name |-> m.name, err |-> body.ret]>>,
                     body.ret)

\* func (cli *Cli) CmdHelp(args ...string) error
CmdHelp(args, ret) ==
    LET two == IF Len(args) > 1 THEN command(SubSeq(args, 1, 2))
               ELSE [method |-> NoMethod, err |-> ErrNotFound, log |-> <<>>]
        one == command(<<args[1]>>)
        usage == Returned(printUsage(Usage), NilErr)
    IN
    IF Len(args) > 1 /\ errType(two.err) = "nil"
    THEN LET o == Then(Returned(two.log, NilErr),
                       invoke(two.method, <<dashHelp>>, ret))
         IN IF o.exited THEN o ELSE Returned(o.log, NilErr)
    ELSE IF Len(args) > 1 /\ errType(two.err) = "initErr"
    THEN Returned(two.log, two.err.error)
    ELSE IF Len(args) > 0
    THEN
      CASE errType(one.err) = "nil" ->
             LET o == Then(Returned(two.log \o one.log, NilErr),
                           invoke(one.method, <<dashHelp>>, ret))
             IN IF o.exited THEN o ELSE Returned(o.log, NilErr)
        [] errType(one.err) = "initErr" ->
             Returned(two.log \o one.log, one.err.error)
        [] OTHER ->
             Then(Then(Returned(two.log \o one.log, NilErr),
                       noSuchCommand(args[1])),
                  usage)
    ELSE usage

\* A slip: the single token is resolved before the pair.
RunOneFirst(args, ret) ==
    LET one == command(<<args[1]>>)
        two == command(SubSeq(args, 1, 2))
    IN
    IF Len(args) > 0 /\ errType(one.err) = "nil"
    THEN Then(Returned(one.log, NilErr), invoke(one.method, rest(args, 1), ret))
    ELSE IF Len(args) > 0 /\ errType(one.err) = "initErr"
    THEN Returned(one.log, one.err.error)
    ELSE IF Len(args) > 1
    THEN
      CASE errType(two.err) = "nil" ->
             Then(Returned(one.log \o two.log, NilErr),
                  invoke(two.method, rest(args, 2), ret))
        [] errType(two.err) = "initErr" ->
             Returned(one.log \o two.log, two.err.error)
        [] OTHER ->
             Then(Then(Returned(one.log \o two.log, NilErr),
                       noSuchCommand(args[1])),
                  CmdHelp(<<>>, ret))
    ELSE IF Len(args) > 0
    THEN Then(Then(Returned(one.log, NilErr), noSuchCommand(args[1])),
              CmdHelp(<<>>, ret))
    ELSE CmdHelp(<<>>, ret)
\* func (cli *Cli) Run(args ...string) error
Run(args, ret) ==
    LET two == IF Len(args) > 1 THEN command(SubSeq(args, 1, 2))
               ELSE [method |-> NoMethod, err |-> ErrNotFound, log |-> <<>>]
        one == command(<<args[1]>>)
    IN
    IF Len(args) > 1 /\ errType(two.err) = "nil"
    THEN Then(Returned(two.log, NilErr), invoke(two.method, rest(args, 2), ret))
    ELSE IF Len(args) > 1 /\ errType(two.err) = "initErr"
    THEN Returned(two.log, two.err.error)
    ELSE IF Len(args) > 0
    THEN
      CASE errType(one.err) = "nil" ->
             Then(Returned(two.log \o one.log, NilErr),
                  invoke(one.method, rest(args, 1), ret))
        [] errType(one.err) = "initErr" ->
             Returned(two.log \o one.log, one.err.error)
        [] OTHER ->
             Then(Then(Returned(two.log \o one.log, NilErr),
                       noSuchCommand(args[1])),
                  CmdHelp(<<>>, ret))
    ELSE CmdHelp(<<>>, ret)

----------------------------------------------------------------------------
\* The state machine

\* A slip: the Cli is appended after the handlers instead of put first.
NewSelfLast(hs) == hs \o <<Self>>
\* cli.handlers = append([]Handler{cli}, handlers...)
New(hs) == <<Self>> \o hs

Init ==
    /\ \E hs \in SeqsUpTo(Handler, MaxHandlers) : handlers = New(hs)
    /\ Stderr = "nil"
    /\ Usage = "nil"
    /\ call = NoCall
    /\ log = <<>>
    /\ method = NoMethod
    /\ result = NoReturn
    /\ exited = FALSE

\* The caller assigns the exported field Stderr before dispatching.
SetStderr ==
    /\ call = NoCall
    /\ Stderr = "nil"
    /\ Stderr' = "buffer"
    /\ UNCHANGED <<handlers, Usage, call, log, method, result, exited>>

\* The caller assigns the exported field Usage before dispatching.
SetUsage ==
    /\ call = NoCall
    /\ Usage = "nil"
    /\ Usage' = "custom"
    /\ UNCHANGED <<handlers, Stderr, call, log, method, result, exited>>

\* noSuchCommand stores os.Stderr in cli.Stderr when none was configured.
StderrAfter(l) ==
    IF Stderr = "nil" /\ \E k \in 1..Len(l) : l[k].ev = "diag"
    THEN "os.Stderr" ELSE Stderr

\* One dispatch: cli.Run(args...), with ret what a handler's action returns.
\* Dispatching reads the handler list and writes nothing a later dispatch
\* reads, so one call per behaviour covers them all.
DoRun ==
    /\ call = NoCall
    /\ \E args \in SeqsUpTo(Tokens, MaxArgs), ret \in ActionResults :
       \E o \in {Run(args, ret)} :
         /\ call' = [op |-> "Run", args |-> args, stderr |-> Stderr]
         /\ log' = o.log
         /\ result' = o.ret
         /\ exited' = o.exited
         /\ Stderr' = StderrAfter(o.log)
    /\ method' = NoMethod
    /\ UNCHANGED <<handlers, Usage>>

\* One resolution on its own: cli.command(args...), as Run and CmdHelp make
\* it, with one or two tokens.
DoCommand ==
    /\ call = NoCall
    /\ \E args \in SeqsUpTo(Tokens, 2) \ {<<>>} :
       \E r \in {command(args)} :
         /\ call' = [op |-> "command", args |-> args, stderr |-> Stderr]
         /\ log' = r.log
         /\ method' = r.method
         /\ result' = r.err
    /\ UNCHANGED <<handlers, Stderr, Usage, exited>>

Next == SetStderr \/ SetUsage \/ DoRun \/ DoCommand

Spec == Init /\ [][Next]_vars

----------------------------------------------------------------------------
\* Vocabulary of the properties.  The expected action names are written out
\* per token, independently of Capitalize and methodName.

Word(t) ==
    CASE t = help -> <<"H","e","l","p">>
      [] t = fOo  -> <<"F","o","o">>
      [] OTHER    -> <<>>
Name1(t)    == <<"C","m","d">> \o Word(t)
Name2(t, u) == <<"C","m","d">> \o Word(t) \o Word(u)

\* The non-nil handlers exposing an action of that name, by index.
Exposers(name) ==
    {i \in 1..Len(handlers) :
        /\ handlers[i].kind # "nil"
        /\ name \in (IF handlers[i].kind = "cli" THEN {CmdHelpName}
                     ELSE handlers[i].methods)}
Min(S) == CHOOSE x \in S : \A y \in S : x <= y
Earliest(name) == Min(Exposers(name))

HasHook(i)   == handlers[i].kind = "user" /\ handlers[i].init # "none"
HookFails(i) == handlers[i].kind = "user" /\ handlers[i].init = "fail"

Idx         == 1..Len(log)
Ev(kind)    == {k \in Idx : log[k].ev = kind}
EvAt(kind, d) == {k \in Idx : log[k].ev = kind /\ log[k].depth = d}
IsRun       == call.op = "Run"
IsCommand   == call.op = "command"
args0       == call.args
NArgs       == Len(call.args)

\* The pair args[:2] names an action some handler exposes; so does args[0].
PairExposed ==
    /\ NArgs >= 2 /\ args0[1] # <<>> /\ args0[2] # <<>>
    /\ Exposers(Name2(args0[1], args0[2])) # {}
FirstExposed ==
    /\ NArgs >= 1 /\ args0[1] # <<>>
    /\ Exposers(Name1(args0[1])) # {}
PairName  == Name2(args0[1], args0[2])
FirstName == Name1(args0[1])
Rest(n)   == [k \in 1..(NArgs - n) |-> args0[k + n]]

InvokeEvent(d, i, name, a) ==
    [ev |-> "invoke", depth |-> d, h |-> i, name |-> name, args |-> a]

\* Run called the action (i, name) exactly once, with a, called no other
\* action itself, and returned what the action returned (nothing, if the
\* action ended the process).
RunInvokedOnce(i, name, a) ==
    /\ \E k \in Idx :
         /\ EvAt("invoke", 0) = {k}
         /\ log[k] = InvokeEvent(0, i, name, a)
    /\ IF exited
       THEN result = NoReturn /\ EvAt("return", 0) = {}
       ELSE log[Len(log)] = [ev |-> "return", depth |-> 0, h |-> i,
                             name |-> name, err |-> result]

----------------------------------------------------------------------------
\* C1 as stated: whenever the first two tokens (or, when no handler with a
\* succeeding hook exposes their name, the first token) name an action
\* exposed by SOME handler whose Initialize hook succeeds, Run invokes that
\* handler's action exactly once with the unconsumed tokens and returns its
\* result.
C1_SomeHandlerInvoked ==
    IsRun =>
      LET good2 == IF PairExposed
                   THEN {i \in Exposers(PairName) : ~HookFails(i)} ELSE {}
          good1 == IF FirstExposed
                   THEN {i \in Exposers(FirstName) : ~HookFails(i)} ELSE {}
      IN /\ good2 # {} =>
              \E i \in good2 : RunInvokedOnce(i, PairName, Rest(2))
         /\ (good2 = {} /\ good1 # {}) =>
              \E i \in good1 : RunInvokedOnce(i, FirstName, Rest(1))

\* C1, amended: the handler meant is the earliest-registered non-nil handler
\* exposing the name, and the first token is considered only when no handler
\* exposes the two-token name.  If that handler's hook (if any) succeeds, Run
\* invokes its action exactly once with args[2:] (args[1:] after a one-token
\* match) and the result of Run is the action's result.
C1_EarliestHandlerInvoked ==
    IsRun =>
      /\ (PairExposed /\ ~HookFails(Earliest(PairName))) =>
            RunInvokedOnce(Earliest(PairName), PairName, Rest(2))
      /\ (~PairExposed /\ FirstExposed /\ ~HookFails(Earliest(FirstName))) =>
            RunInvokedOnce(Earliest(FirstName), FirstName, Rest(1))

\* A two-token match of a later handler with a hook, an argument left over,
\* and a failure returned by the action and by Run.
C1_Witness ==
    /\ IsRun /\ NArgs = 3 /\ PairExposed
    /\ Earliest(PairName) = 3 /\ HasHook(3) /\ ~HookFails(3)
    /\ RunInvokedOnce(3, PairName, <<args0[3]>>)
    /\ result = StatusError

----------------------------------------------------------------------------
\* The handler a resolution in Run matches: the earliest exposer of the
\* two-token name or, when no handler exposes it, of the one-token name.
RunMatches == PairExposed \/ FirstExposed
RunMatched ==
    IF PairExposed THEN Earliest(PairName) ELSE Earliest(FirstName)

\* C2: when the handler matched by a resolution in Run has an Initialize
\* hook and the hook fails, nothing more happens in that Run: no action is
\* invoked, no further handler is probed and no further resolution is made,
\* no diagnostic is written, the process does not exit, no usage is printed,
\* and Run returns the hook's own error, not the initErr wrapping it.
C2_InitFailureShortCircuits ==
    (IsRun /\ RunMatches /\ HookFails(RunMatched)) =>
      /\ Ev("invoke") = {} /\ Ev("return") = {}
      /\ Ev("diag") = {} /\ Ev("exit") = {} /\ Ev("usage") = {}
      /\ ~exited
      /\ result = HookErr(RunMatched)
      /\ \E j \in Idx :
           /\ Ev("init") = {j}
           /\ j = Len(log)
           /\ log[j].h = RunMatched /\ log[j].err = HookErr(RunMatched)
      /\ PairExposed => Ev("command") = {1}

\* The two-token name is matched by a handler whose hook fails although an
\* earlier handler exposes the one-token name.
C2_Witness ==
    /\ IsRun /\ NArgs = 3 /\ PairExposed /\ FirstExposed
    /\ Earliest(PairName) = 3 /\ HookFails(3)
    /\ Earliest(FirstName) = 2
    /\ result = HookErr(3)

----------------------------------------------------------------------------
\* C3: for a non-empty argument vector of which neither the two-token nor
\* the one-token name is exposed by a handler, Run writes the diagnostic
\* naming args[0] to the configured error stream (os.Stderr when none is
\* configured) and exits with a non-zero status; no action, no hook and no
\* usage printing happens.
C3_NotFoundDiagnosticAndExit ==
    (IsRun /\ NArgs >= 1 /\ ~PairExposed /\ ~FirstExposed) =>
      /\ \E k \in Idx :
           /\ Ev("diag") = {k}
           /\ log[k] = [ev |-> "diag", depth |-> 0,
                        stream |-> IF call.stderr = "nil" THEN "os.Stderr"
                                   ELSE call.stderr,
                        token |-> args0[1]]
           /\ k + 1 = Len(log)
           /\ log[k + 1].ev = "exit" /\ log[k + 1].code # 0
      /\ exited /\ result = NoReturn
      /\ Ev("invoke") = {} /\ Ev("init") = {} /\ Ev("usage") = {}

\* Two tokens, neither name exposed although handlers with hooks are
\* registered, and a configured error stream.
C3_Witness ==
    /\ IsRun /\ NArgs >= 2 /\ ~PairExposed /\ ~FirstExposed
    /\ args0[1] = fOo /\ args0[2] = help
    /\ Len(handlers) = 3 /\ HasHook(2) /\ HasHook(3)
    /\ call.stderr = "buffer"
    /\ exited

----------------------------------------------------------------------------
\* The arguments the built-in help action gets when Run dispatches to it.
HelpByRun ==
    /\ IsRun /\ NArgs >= 2 /\ ~PairExposed /\ FirstExposed
    /\ FirstName = CmdHelpName
hargs == Rest(1)
HPairExposed ==
    /\ Len(hargs) >= 2 /\ hargs[1] # <<>> /\ hargs[2] # <<>>
    /\ Exposers(Name2(hargs[1], hargs[2])) # {}
HFirstExposed ==
    /\ hargs[1] # <<>>
    /\ Exposers(Name1(hargs[1])) # {}

\* C4 as stated: given arguments of which neither the two-token nor the
\* one-token name resolves, the help action prints the diagnostic, then the
\* general usage, and returns success.
C4_HelpFallbackPrintsUsage ==
    (HelpByRun /\ ~HPairExposed /\ ~HFirstExposed) =>
      /\ \E k \in Ev("diag") : \E u \in Ev("usage") : k < u
      /\ ~exited
      /\ result = NilErr

\* C4, amended: the help action writes the diagnostic naming its first
\* argument to the error stream and the process exits with status 1; the
\* general usage is not printed and neither help nor Run returns.
C4_HelpFallbackExits ==
    (HelpByRun /\ ~HPairExposed /\ ~HFirstExposed) =>
      /\ \E k \in Idx :
           /\ Ev("diag") = {k}
           /\ log[k] = [ev |-> "diag", depth |-> 1,
                        stream |-> IF call.stderr = "nil" THEN "os.Stderr"
                                   ELSE call.stderr,
                        token |-> hargs[1]]
           /\ k + 1 = Len(log)
           /\ log[k + 1] = [ev |-> "exit", depth |-> 1, code |-> 1]
      /\ Ev("usage") = {} /\ Ev("return") = {}
      /\ exited /\ result = NoReturn
      /\ \E k \in Idx :
           /\ Ev("invoke") = {k}
           /\ log[k] = InvokeEvent(0, 1, CmdHelpName, hargs)

\* "help foo help" with a custom usage hook configured: no handler exposes
\* CmdFooHelp or CmdFoo.
C4_Witness ==
    /\ HelpByRun /\ ~HPairExposed /\ ~HFirstExposed
    /\ hargs = <<fOo, help>>
    /\ Usage = "custom"
    /\ Len(handlers) = 3
    /\ exited

----------------------------------------------------------------------------
\* C5: with no arguments Run runs the help action without arguments: the
\* general usage is printed exactly once, by the Usage hook when one is
\* configured and by the default renderer otherwise; nothing else happens
\* (no probe, hook, action or diagnostic) and Run returns nil.
C5_NoArgsPrintsUsage ==
    (IsRun /\ NArgs = 0) =>
      /\ log = <<[ev |-> "usage", depth |-> 0,
                  by |-> IF Usage = "nil" THEN "default" ELSE "custom"]>>
      /\ result = NilErr
      /\ ~exited

\* No arguments, a custom usage hook, and handlers with failing hooks and
\* an action named CmdHelp registered.
C5_Witness ==
    /\ IsRun /\ NArgs = 0 /\ Usage = "custom"
    /\ Len(handlers) = 3 /\ HookFails(2)
    /\ Exposers(CmdHelpName) = {1, 3}
    /\ result = NilErr

----------------------------------------------------------------------------
\* One resolution, cli.command(tokens...).
tokens       == call.args
TokensName   == IF Len(tokens) = 1 THEN Name1(tokens[1])
                ELSE Name2(tokens[1], tokens[2])
TokensFilled == \A k \in 1..Len(tokens) : tokens[k] # <<>>
LaterUntouched(i) ==
    \A k \in Idx : log[k].ev \in {"probe", "init"} => log[k].h <= i
HelpIsBuiltIn ==
    /\ handlers[1] = Self
    /\ \A k \in Idx :
         (log[k].ev \in {"probe", "invoke"} /\ log[k].name = CmdHelpName)
            => log[k].h = 1
    /\ (IsCommand /\ tokens = <<help>>) =>
         /\ method = [h |-> 1, name |-> CmdHelpName]
         /\ result = NilErr

\* C6 as stated: in a resolution whose name several handlers expose, the
\* action of the earliest-registered non-nil one is returned and the later
\* handlers are neither probed nor initialized; and the single token "help"
\* always resolves to the help action of the Cli itself.
C6_EarliestActionReturned ==
    /\ (IsCommand /\ TokensFilled /\ Cardinality(Exposers(TokensName)) >= 2) =>
         /\ method = [h |-> Earliest(TokensName), name |-> TokensName]
         /\ LaterUntouched(Earliest(TokensName))
    /\ HelpIsBuiltIn

\* C6, amended: the earliest-registered non-nil handler exposing the name
\* decides the resolution.  Its action is returned when its hook (if any)
\* succeeds; when its hook fails the resolution returns no action and the
\* hook's error wrapped as initErr.  In both cases later handlers are neither
\* probed nor initialized.  The single token "help" always resolves to the
\* help action of the Cli itself.
C6_EarliestHandlerDecides ==
    /\ (IsCommand /\ TokensFilled /\ Cardinality(Exposers(TokensName)) >= 2) =>
         LET e == Earliest(TokensName) IN
         /\ IF HookFails(e)
            THEN method = NoMethod /\ result = initErr(HookErr(e))
            ELSE method = [h |-> e, name |-> TokensName] /\ result = NilErr
         /\ LaterUntouched(e)
    /\ HelpIsBuiltIn

\* "help" resolved while a nil handler and a handler exposing CmdHelp, with a
\* failing hook, are registered.
C6_Witness ==
    /\ IsCommand /\ tokens = <<help>>
    /\ Len(handlers) = 3 /\ handlers[2] = NilHandler
    /\ Exposers(CmdHelpName) = {1, 3} /\ HookFails(3)
    /\ method = [h |-> 1, name |-> CmdHelpName]

----------------------------------------------------------------------------
CommandEvent(d, ts) == [ev |-> "command", depth |-> d, args |-> ts]

\* C7: with two or more args Run first resolves the pair; it resolves the
\* first arg alone only when the pair matched no handler, never after a
\* match or a failed hook.  So when both names are exposed the action Run
\* invokes is the two-token one, with args[2:], also when an earlier handler
\* exposes the one-token name.  With one arg no pair is resolved.
C7_TwoTokenPassFirst ==
    IsRun =>
      /\ NArgs >= 2 =>
           /\ log[1] = CommandEvent(0, <<args0[1], args0[2]>>)
           /\ \A k \in EvAt("command", 0) :
                /\ k > 1 => log[k] = CommandEvent(0, <<args0[1]>>)
                /\ k > 1 => ~PairExposed
                /\ k > 1 => \A j \in 1..(k - 1) : log[j].ev # "init"
      /\ (PairExposed /\ FirstExposed) =>
           /\ EvAt("command", 0) = {1}
           /\ \A k \in EvAt("invoke", 0) :
                log[k] = InvokeEvent(0, Earliest(PairName), PairName, Rest(2))
           /\ ~HookFails(Earliest(PairName)) =>
                RunInvokedOnce(Earliest(PairName), PairName, Rest(2))
      /\ NArgs = 1 => EvAt("command", 0) = {1} /\ log[1] = CommandEvent(0, args0)

\* Both names exposed, the one-token name by the earlier handler, and the
\* two-token action invoked.
C7_Witness ==
    /\ IsRun /\ NArgs = 3 /\ PairExposed /\ FirstExposed
    /\ Earliest(FirstName) = 2 /\ Earliest(PairName) = 3
    /\ RunInvokedOnce(3, PairName, Rest(2))

----------------------------------------------------------------------------
\* C8: whenever an action of a handler with an Initialize hook is invoked,
\* that hook was called exactly once in the Run, and before the action (right
\* before it, and it succeeded).  A hook is called only on the handler that
\* supplies the match: the earliest exposer of the name just probed; so the
\* hooks of earlier handlers, of later handlers and of handlers probed in a
\* pass that found no match are never called.
C8_HookOnceBeforeAction ==
    IsRun =>
      /\ \A k \in Ev("invoke") :
           HasHook(log[k].h) =>
             /\ k > 1
             /\ log[k - 1] = [ev |-> "init", depth |-> log[k].depth,
                              h |-> log[k].h, err |-> NilErr]
             /\ {j \in Ev("init") : log[j].h = log[k].h} = {k - 1}
      /\ \A j \in Ev("init") :
           /\ j > 1
           /\ log[j - 1].ev = "probe"
           /\ log[j - 1].h = log[j].h
           /\ log[j - 1].depth = log[j].depth
           /\ log[j].h = Earliest(log[j - 1].name)
           /\ HasHook(log[j].h)
           /\ log[j].err = NilErr =>
                /\ j < Len(log)
                /\ log[j + 1].ev = "invoke" /\ log[j + 1].h = log[j].h
                /\ log[j + 1].name = log[j - 1].name

\* A one-token match of the last handler after a two-token pass that probed
\* it, with an earlier handler whose hook would fail.
C8_Witness ==
    /\ IsRun /\ NArgs = 2 /\ ~PairExposed /\ FirstExposed
    /\ args0[2] # <<>>
    /\ Earliest(FirstName) = 3 /\ HasHook(3)
    /\ HookFails(2)
    /\ Ev("init") # {} /\ EvAt("invoke", 0) # {}

----------------------------------------------------------------------------
\* The action the arguments of help resolve to.
HTargetName ==
    IF HPairExposed THEN Name2(hargs[1], hargs[2]) ELSE Name1(hargs[1])
HTarget == Earliest(HTargetName)

\* C9: when the arguments of the help action resolve (the first two tokens
\* or, failing that, the first) to an action whose handler initializes, help
\* invokes that action exactly once with the single argument "--help", prints
\* no general usage and returns success whatever the action returns; when the
\* target's hook fails, help returns the hook's error and does not invoke the
\* target.
C9_HelpInvokesTarget ==
    (HelpByRun /\ (HPairExposed \/ HFirstExposed)) =>
      IF HookFails(HTarget)
      THEN /\ EvAt("invoke", 1) = {}
           /\ ~exited
           /\ result = HookErr(HTarget)
      ELSE /\ \E k \in Idx :
                /\ EvAt("invoke", 1) = {k}
                /\ log[k] = InvokeEvent(1, HTarget, HTargetName, <<dashHelp>>)
           /\ Ev("usage") = {}
           /\ ~exited
           /\ result = NilErr

\* The same, for every target but the help action itself.
C9_HelpInvokesOtherTarget ==
    (HelpByRun /\ (HPairExposed \/ HFirstExposed)
       /\ ~(handlers[HTarget] = Self /\ HTargetName = CmdHelpName))
      => C9_HelpInvokesTarget

----------------------------------------------------------------------------
\* C10: a resolution with an empty token fails with "empty command" before
\* any handler is probed and before any hook runs.  Run treats it as not
\* found: after args [t, "", ...] it resolves t alone, and a match is invoked
\* with args[1:], which begins with the empty string; an empty first token
\* ends in the diagnostic for "" and the exit of the process.
C10_EmptyToken ==
    /\ (IsCommand /\ ~TokensFilled) =>
         /\ log = <<CommandEvent(0, tokens)>>
         /\ method = NoMethod
         /\ result = ErrEmpty
    /\ (IsRun /\ NArgs >= 2 /\ args0[1] # <<>> /\ args0[2] = <<>>) =>
         /\ Len(log) >= 2
         /\ log[1] = CommandEvent(0, <<args0[1], args0[2]>>)
         /\ log[2] = CommandEvent(0, <<args0[1]>>)
         /\ (FirstExposed /\ ~HookFails(Earliest(FirstName))) =>
              /\ RunInvokedOnce(Earliest(FirstName), FirstName, Rest(1))
              /\ Rest(1)[1] = <<>>
         /\ ~FirstExposed => C3_NotFoundDiagnosticAndExit
    /\ (IsRun /\ NArgs >= 1 /\ args0[1] = <<>>) =>
         /\ \A k \in Idx : log[k].ev \in {"command", "diag", "exit"}
         /\ \E k \in Ev("diag") : log[k].token = <<>> /\ log[k].depth = 0
         /\ exited

\* Run(fOo, "", fOo) reaches CmdFoo although "foo foo" is a command too.
C10_Witness ==
    /\ IsRun /\ NArgs = 3 /\ args0[1] = fOo /\ args0[2] = <<>>
    /\ Exposers(CmdFooName) = {3} /\ Exposers(CmdFooFooName) = {2}
    /\ args0[3] = fOo
    /\ RunInvokedOnce(3, CmdFooName, <<empty, fOo>>)

====
